---- MODULE Spec2Model ----
(***************************************************************************)
(* Model of working.py: the converter that turns a file (or a zipped       *)
(* folder) into a PNG, a colors.txt and an 8-bit WAV plus a .meta.json,    *)
(* and reconstructs the file from the PNG or from the WAV.                 *)
(*                                                                         *)
(* Bytes are naturals in 0..255, byte strings are sequences of bytes, a    *)
(* pixel array of shape (n,3) is a sequence of n triplets <<r,g,b>>, and a *)
(* file name is a sequence of one-character strings.                       *)
(***************************************************************************)
EXTENDS Integers, Sequences, FiniteSets, TLC

(* ------------------------------ bounds -------------------------------- *)
MaxLen == 4      \* longest payload enumerated exhaustively
MaxSwap == 2     \* widest foreign image handed to the decoder
MaxPad == 3      \* largest pad_bytes value a hand-edited record carries
MaxN == 60       \* largest pixel count laid out by SpecGrid

(* ------------------------------ inputs -------------------------------- *)
ByteVals == {0, 65}

ScenarioA == <<65, 66, 67, 68, 69, 70, 71>>

ThreeRuns == <<0, 0, 0, 65, 65, 65, 0, 0>>

Payloads == UNION {[1..n -> ByteVals] : n \in 0..MaxLen} \cup {ScenarioA, ThreeRuns}

InputNames == { <<"g">>, <<"g", ".", "b">>, <<".", "g">> }

PadValues == (0 - 1)..MaxPad

(* --------------------------- python helpers --------------------------- *)
Zeros(k) == [i \in 1..k |-> 0]

\* b[:stop] for a Python bytes object
SliceTo(b, stop) ==
  LET s1 == IF stop < 0 THEN stop + Len(b) ELSE stop
      s2 == IF s1 < 0 THEN 0 ELSE IF s1 > Len(b) THEN Len(b) ELSE s1
  IN SubSeq(b, 1, s2)

\* int(math.ceil(math.sqrt(n)))
CeilSqrt(n) == CHOOSE r \in 0..n : r * r >= n /\ \A q \in 0..n : q * q >= n => r <= q

\* height computed with floor division
FloorDiv(n, width) == n \div width

\* int(math.ceil(n / width)), width > 0
CeilDiv(n, width) == (n + width - 1) \div width

\* PurePath.stem: the name up to its last dot, unless that dot is the first
\* or the last character of the name
LastDot(name) ==
  LET dots == {i \in 1..Len(name) : name[i] = "."}
  IN IF dots = {} THEN 0 ELSE CHOOSE i \in dots : \A j \in dots : j <= i

Stem(name) ==
  LET j == LastDot(name)
  IN IF 1 < j /\ j < Len(name) THEN SubSeq(name, 1, j - 1) ELSE name

PathNames == InputNames \cup {Stem(nm) : nm \in InputNames}

(* ------------------------------- zlib --------------------------------- *)
\* zlib is a library; it is abstracted by a run-length coder that keeps the
\* properties of a zlib stream the program depends on: the stream is
\* self-delimiting (decompress ignores bytes after its end), it can be
\* shorter than, as long as, or longer than its input, and a malformed
\* stream raises zlib.error.  Stream = <<number of runs>> then (count, byte)
\* for each run.
RECURSIVE RunLen(_, _)
RunLen(d, i) == IF i < Len(d) /\ d[i + 1] = d[i] THEN 1 + RunLen(d, i + 1) ELSE 1

RECURSIVE Runs(_, _)
Runs(d, i) ==
  IF i > Len(d) THEN <<>>
  ELSE LET r == RunLen(d, i) IN <<r, d[i]>> \o Runs(d, i + r)

zlib_compress(d) == <<Len(Runs(d, 1)) \div 2>> \o Runs(d, 1)

RECURSIVE Expand(_, _, _)
Expand(s, k, j) ==
  IF j > k THEN <<>>
  ELSE [i \in 1..s[2 * j] |-> s[2 * j + 1]] \o Expand(s, k, j + 1)

zlib_decompress(s) ==
  IF Len(s) = 0 \/ Len(s) < 1 + 2 * s[1]
     \/ \E j \in 1..s[1] : s[2 * j] < 1
  THEN [ok |-> FALSE, out |-> <<>>]
  ELSE [ok |-> TRUE, out |-> Expand(s, s[1], 1)]

(* ------------------------ CORE: bytes <-> pixels ----------------------- *)
\* pad taken as len(data) % 3
bytes_to_pixels_len_mod(data) ==
  LET pad == Len(data) % 3
      padded == IF pad # 0 THEN data \o Zeros(pad) ELSE data
  IN [pixels |-> [i \in 1..(Len(padded) \div 3) |->
                    <<padded[3 * i - 2], padded[3 * i - 1], padded[3 * i]>>],
      pad |-> pad]

bytes_to_pixels(data) ==
  LET pad == (0 - Len(data)) % 3
      padded == IF pad # 0 THEN data \o Zeros(pad) ELSE data
  IN [pixels |-> [i \in 1..(Len(padded) \div 3) |->
                    <<padded[3 * i - 2], padded[3 * i - 1], padded[3 * i]>>],
      pad |-> pad]

\* ndarray.tobytes() / ndarray.flatten() of an (n,3) uint8 array
tobytes(pixels) ==
  [i \in 1..(3 * Len(pixels)) |-> pixels[(i + 2) \div 3][((i - 1) % 3) + 1]]

pixels_to_bytes(pixels, pad) ==
  LET b == tobytes(pixels)
  IN IF pad # 0 THEN SliceTo(b, 0 - pad) ELSE b

NoFile == [kind |-> "none"]

\* width is never passed by a caller, so it is always computed here
pixels_to_image_file(pixels) ==
  LET n == Len(pixels)
      width == CeilSqrt(n)
  IN IF width = 0
     THEN [err |-> "ZeroDivisionError", width |-> 0, height |-> 0, file |-> NoFile]
     ELSE LET height == CeilDiv(n, width)
              canvas == [i \in 1..(height * width) |->
                           IF i <= n THEN pixels[i] ELSE <<0, 0, 0>>]
          IN [err |-> "none", width |-> width, height |-> height,
              file |-> [kind |-> "png", width |-> width, height |-> height,
                        rows |-> [r \in 1..height |->
                                    [c \in 1..width |-> canvas[(r - 1) * width + c]]]]]

image_file_to_pixels(img) ==
  [flat |-> [i \in 1..(img.height * img.width) |->
               img.rows[((i - 1) \div img.width) + 1][((i - 1) % img.width) + 1]],
   w |-> img.width, h |-> img.height]

\* '#{:02x}{:02x}{:02x}': six hex digits per pixel, kept as digit values
pixels_to_hex_lines(pixels) ==
  [i \in 1..Len(pixels) |->
     <<pixels[i][1] \div 16, pixels[i][1] % 16,
       pixels[i][2] \div 16, pixels[i][2] % 16,
       pixels[i][3] \div 16, pixels[i][3] % 16>>]

(* ------------------------------- state -------------------------------- *)
VARIABLES
  path_name,   \* path.name of the input chosen in the dialog
  is_dir,      \* path.is_dir()
  src_bytes,   \* bytes of the file, or of the zip made from the folder
  use_zlib,    \* the checkbox value passed to encode_file
  pc,          \* statement encode_file is about to run, "done" or "failed"
  err,         \* exception that ended encode_file, "none" otherwise
  fail_stage,  \* stage at which that exception was raised
  zip_temp,    \* TRUE while the temporary zip of a folder exists
  data,        \* local data of encode_file
  used_zlib,   \* local used_zlib
  pixels,      \* local pixels
  pad,         \* local pad
  w,           \* local w
  h,           \* local h
  folder,      \* entries of out_folder by name: none, dir or file
  img,         \* <stem>_colors.png
  hex,         \* <stem>_colors.txt
  wav,         \* <stem>_audio.wav
  meta,        \* <stem>.meta.json
  recon        \* outcome of the latest reconstruct_from_* call

vars == <<path_name, is_dir, src_bytes, use_zlib, pc, err, fail_stage, zip_temp,
          data, used_zlib, pixels, pad, w, h, folder, img, hex, wav, meta, recon>>

inputs == <<path_name, is_dir, src_bytes, use_zlib>>

locals == <<data, used_zlib, pixels, pad, w, h>>

artifacts == <<img, hex, wav, meta>>

NoRecon == [src |-> "none"]

Init ==
  /\ path_name \in InputNames
  /\ is_dir \in BOOLEAN
  /\ src_bytes \in Payloads
  /\ is_dir => Len(src_bytes) > 0      \* a zip archive is never empty
  /\ use_zlib \in BOOLEAN
  /\ pc = "prepare"
  /\ err = "none"
  /\ fail_stage = "none"
  /\ zip_temp = FALSE
  /\ data = <<>>
  /\ used_zlib = FALSE
  /\ pixels = <<>>
  /\ pad = 0
  /\ w = 0
  /\ h = 0
  /\ folder = [nm \in PathNames |-> NoFile]
  /\ img = NoFile
  /\ hex = NoFile
  /\ wav = NoFile
  /\ meta = NoFile
  /\ recon = NoRecon

(* ----------------------------- encode_file ---------------------------- *)
\* order with the record written before the audio
NextStageMetaEarly(s) ==
  CASE s = "prepare"  -> "compress"
    [] s = "compress" -> "canon"
    [] s = "canon"    -> "mkdir"
    [] s = "mkdir"    -> "png"
    [] s = "png"      -> "hex"
    [] s = "hex"      -> "meta"
    [] s = "meta"     -> "wav"
    [] s = "wav"      -> "cleanup"
    [] s = "cleanup"  -> "done"

\* order of the statements of encode_file
NextStage(s) ==
  CASE s = "prepare"  -> "compress"
    [] s = "compress" -> "canon"
    [] s = "canon"    -> "mkdir"
    [] s = "mkdir"    -> "png"
    [] s = "png"      -> "hex"
    [] s = "hex"      -> "wav"
    [] s = "wav"      -> "meta"
    [] s = "meta"     -> "cleanup"
    [] s = "cleanup"  -> "done"

\* data, was_zipped, zip_temp = prepare_input(path)
prepare_input ==
  /\ pc = "prepare"
  /\ data' = src_bytes
  /\ zip_temp' = is_dir
  /\ pc' = NextStage(pc)
  /\ UNCHANGED <<inputs, err, fail_stage, used_zlib, pixels, pad, w, h,
                 folder, artifacts, recon>>

\* shrink test that also accepts an equal length
ShrinksOrEqual(comp, d) == Len(comp) <= Len(d)

\* the shrink test of the optional compression
Shrinks(comp, d) == Len(comp) < Len(d)

Compress ==
  /\ pc = "compress"
  /\ LET comp == zlib_compress(data)
     IN IF use_zlib /\ Shrinks(comp, data)
        THEN data' = comp /\ used_zlib' = TRUE
        ELSE data' = data /\ used_zlib' = FALSE
  /\ pc' = NextStage(pc)
  /\ UNCHANGED <<inputs, err, fail_stage, zip_temp, pixels, pad, w, h,
                 folder, artifacts, recon>>

Canonicalize ==
  /\ pc = "canon"
  /\ pixels' = bytes_to_pixels(data).pixels
  /\ pad' = bytes_to_pixels(data).pad
  /\ pc' = NextStage(pc)
  /\ UNCHANGED <<inputs, err, fail_stage, zip_temp, data, used_zlib, w, h,
                 folder, artifacts, recon>>

\* base = out_folder / path.stem; base.mkdir(parents=True, exist_ok=True)
MakeBaseDir ==
  /\ pc = "mkdir"
  /\ IF folder[Stem(path_name)].kind = "file"
     THEN /\ pc' = "failed" /\ err' = "FileExistsError" /\ fail_stage' = pc
          /\ UNCHANGED folder
     ELSE /\ folder' = [folder EXCEPT ![Stem(path_name)] = [kind |-> "dir"]]
          /\ pc' = NextStage(pc)
          /\ UNCHANGED <<err, fail_stage>>
  /\ UNCHANGED <<inputs, zip_temp, locals, artifacts, recon>>

WriteImage ==
  /\ pc = "png"
  /\ LET r == pixels_to_image_file(pixels)
     IN IF r.err # "none"
        THEN /\ pc' = "failed" /\ err' = r.err /\ fail_stage' = pc
             /\ UNCHANGED <<w, h, img>>
        ELSE /\ img' = r.file /\ w' = r.width /\ h' = r.height
             /\ pc' = NextStage(pc)
             /\ UNCHANGED <<err, fail_stage>>
  /\ UNCHANGED <<inputs, zip_temp, data, used_zlib, pixels, pad, folder,
                 hex, wav, meta, recon>>

WriteHex ==
  /\ pc = "hex"
  /\ hex' = [kind |-> "txt", lines |-> pixels_to_hex_lines(pixels)]
  /\ pc' = NextStage(pc)
  /\ UNCHANGED <<inputs, err, fail_stage, zip_temp, locals, folder,
                 img, wav, meta, recon>>

WriteWav ==
  /\ pc = "wav"
  /\ wav' = [kind |-> "wav", nchannels |-> 1, sampwidth |-> 1,
             framerate |-> 44100, frames |-> tobytes(pixels)]
  /\ pc' = NextStage(pc)
  /\ UNCHANGED <<inputs, err, fail_stage, zip_temp, locals, folder,
                 img, hex, meta, recon>>

MetaRecord ==
  [kind |-> "json", orig_name |-> path_name, orig_size_bytes |-> Len(src_bytes),
   was_zipped |-> is_dir, zlib_used |-> used_zlib, pad_bytes |-> pad,
   image_width |-> w, image_height |-> h]

WriteMeta ==
  /\ pc = "meta"
  /\ meta' = MetaRecord
  /\ pc' = NextStage(pc)
  /\ UNCHANGED <<inputs, err, fail_stage, zip_temp, locals, folder,
                 img, hex, wav, recon>>

\* shutil.rmtree(zip_temp.parent), errors swallowed
Cleanup ==
  /\ pc = "cleanup"
  /\ zip_temp' = FALSE
  /\ pc' = NextStage(pc)
  /\ UNCHANGED <<inputs, err, fail_stage, locals, folder, artifacts, recon>>

\* an exception of the environment (unreadable input, full disk, no memory)
\* ends encode_file at the statement it is raised in; a failed write_text of
\* the record leaves either no file or a truncated one
FailStages == {"prepare", "compress", "mkdir", "png", "hex", "wav", "meta"}

EncodeRaises ==
  /\ pc \in FailStages
  /\ pc' = "failed"
  /\ err' = "EnvError"
  /\ fail_stage' = pc
  /\ IF pc = "meta"
     THEN meta' \in {meta, [kind |-> "truncated"]}
     ELSE meta' = meta
  /\ UNCHANGED <<inputs, zip_temp, locals, folder, img, hex, wav, recon>>

(* ------------------------------- decode ------------------------------- *)
\* files the dialogs of the reconstruct buttons can be pointed at: the
\* artifacts of the encode, an image that is not the one the record
\* describes, and the record with a hand-edited pad_bytes
ForeignImages ==
  {[kind |-> "png", width |-> a, height |-> 1,
    rows |-> <<[c \in 1..a |-> <<65, 65, 65>>]>>] : a \in 1..MaxSwap}

MetaChoices ==
  IF meta.kind = "json"
  THEN {[meta EXCEPT !.pad_bytes = p] : p \in PadValues}
  ELSE IF meta.kind = "truncated" THEN {meta} ELSE {}

\* (image, record) pairs: the encode's image with any of the records, or a
\* foreign image with the record as it is on disk
ImageChoices ==
  (IF img.kind = "png" THEN {<<img, m>> : m \in MetaChoices} ELSE {})
    \cup (IF meta.kind # "none" THEN {<<im, meta>> : im \in ForeignImages} ELSE {})

\* out_name = out_folder / orig_name; out_name.write_bytes(raw)
\* same: out_folder is the folder encode_file wrote to (the GUI's choice);
\* otherwise it is a fresh empty folder
WriteOut(src, art, same, m, npix, raw) ==
  IF same /\ folder[m.orig_name].kind = "dir"
  THEN /\ recon' = [src |-> src, art |-> art, same |-> same, status |-> "IsADirectoryError",
                    meta |-> m, npix |-> npix, out |-> <<>>]
       /\ UNCHANGED folder
  ELSE /\ recon' = [src |-> src, art |-> art, same |-> same, status |-> "ok",
                    meta |-> m, npix |-> npix, out |-> raw]
       /\ folder' = IF same
                    THEN [folder EXCEPT ![m.orig_name] = [kind |-> "file", bytes |-> raw]]
                    ELSE folder

Raise(src, art, same, m, npix, e) ==
  /\ recon' = [src |-> src, art |-> art, same |-> same, status |-> e,
               meta |-> m, npix |-> npix, out |-> <<>>]
  /\ UNCHANGED folder

\* the statements shared by both reconstruct functions once raw is unpadded
Finish(src, art, same, m, npix, raw) ==
  IF m.zlib_used
  THEN LET d == zlib_decompress(raw)
       IN IF d.ok THEN WriteOut(src, art, same, m, npix, d.out)
          ELSE Raise(src, art, same, m, npix, "zlib.error")
  ELSE WriteOut(src, art, same, m, npix, raw)

reconstruct_from_image(im, m, same) ==
  LET px == image_file_to_pixels(im)
      npix == px.w * px.h
  IN IF m.kind # "json"
     THEN Raise("png", im, same, m, npix, "JSONDecodeError")
     ELSE Finish("png", im, same, m, npix, pixels_to_bytes(px.flat, m.pad_bytes))

\* if pad: raw = raw[:-pad]
Unpad(raw, p) == IF p # 0 THEN SliceTo(raw, 0 - p) ELSE raw

reconstruct_from_wav(wv, m, same) ==
  LET frames == wv.frames
      npix == Len(frames) \div 3
  IN IF m.kind # "json"
     THEN Raise("wav", wv, same, m, npix, "JSONDecodeError")
     ELSE Finish("wav", wv, same, m, npix, Unpad(frames, m.pad_bytes))

Idle == pc \in {"done", "failed"}

ReconstructFromImage ==
  /\ Idle
  /\ \E c \in ImageChoices, same \in BOOLEAN :
       reconstruct_from_image(c[1], c[2], same)
  /\ UNCHANGED <<inputs, pc, err, fail_stage, zip_temp, locals, artifacts>>

ReconstructFromWav ==
  /\ Idle
  /\ wav.kind = "wav"
  /\ \E m \in MetaChoices, same \in BOOLEAN :
       reconstruct_from_wav(wav, m, same)
  /\ UNCHANGED <<inputs, pc, err, fail_stage, zip_temp, locals, artifacts>>

Next ==
  \/ prepare_input
  \/ Compress
  \/ Canonicalize
  \/ MakeBaseDir
  \/ WriteImage
  \/ WriteHex
  \/ WriteWav
  \/ WriteMeta
  \/ Cleanup
  \/ EncodeRaises
  \/ ReconstructFromImage
  \/ ReconstructFromWav

Spec == Init /\ [][Next]_vars

(* ------------------- pixels_to_image_file on its own ------------------ *)
\* pixels_to_image_file applied to arrays of 1..MaxN pixels
GridPixels(n) == [i \in 1..n |-> <<i % 256, 65, 0>>]

InitGrid ==
  /\ path_name = <<"g", ".", "b">>
  /\ is_dir = FALSE
  /\ src_bytes = <<>>
  /\ use_zlib = FALSE
  /\ pc = "png"
  /\ err = "none"
  /\ fail_stage = "none"
  /\ zip_temp = FALSE
  /\ data = <<>>
  /\ used_zlib = FALSE
  /\ pixels \in {GridPixels(n) : n \in 1..MaxN}
  /\ pad = 0
  /\ w = 0
  /\ h = 0
  /\ folder = [nm \in PathNames |-> NoFile]
  /\ img = NoFile
  /\ hex = NoFile
  /\ wav = NoFile
  /\ meta = NoFile
  /\ recon = NoRecon

NextGrid == WriteImage

SpecGrid == InitGrid /\ [][NextGrid]_vars

(* ------------------------------ properties ---------------------------- *)
\* encode_file has run bytes_to_pixels
Canonicalized ==
  \/ pc \in {"mkdir", "png", "hex", "wav", "meta", "cleanup", "done"}
  \/ pc = "failed" /\ fail_stage \in {"mkdir", "png", "hex", "wav", "meta"}

\* encode_file has run the compression block
Compressed == Canonicalized \/ pc = "canon"

\* encode_file ended, and not by an exception of the environment
EndedOnItsOwn == Idle /\ err # "EnvError"

\* the latest reconstruct call was given the artifacts of a successful
\* encode_file exactly as it wrote them
FromImage == pc = "done" /\ recon.src = "png" /\ recon.art = img /\ recon.meta = meta

FromWav == pc = "done" /\ recon.src = "wav" /\ recon.art = wav /\ recon.meta = meta

\* the latest reconstruct call was given an artifact of a successful
\* encode_file, with whatever record
OwnArtifact ==
  /\ pc = "done"
  /\ \/ recon.src = "png" /\ recon.art = img
     \/ recon.src = "wav" /\ recon.art = wav

\* C1: encode_file on P followed by reconstruct_from_image on the PNG and
\* the record it produced writes exactly P, for every P; filler triplets of
\* the grid never reach the output.
C1_ImageRoundTrip ==
  (FromImage /\ ~recon.same) => (recon.status = "ok" /\ recon.out = src_bytes)

\* C2: encode_file on P followed by reconstruct_from_wav on the WAV and the
\* record it produced writes exactly P, for every P: the encode produces
\* the WAV and the record, and decoding them returns P.
C2_AudioRoundTrip ==
  /\ EndedOnItsOwn => (wav.kind = "wav" /\ meta.kind = "json")
  /\ (FromWav /\ ~recon.same) => (recon.status = "ok" /\ recon.out = src_bytes)

\* C3: bytes_to_pixels(P) returns pad = (-len(P)) mod 3, in {0,1,2}, and
\* (len(P)+pad)/3 triplets whose flattening is P followed by pad zero
\* bytes; pixels_to_bytes of that result with that pad is P.
C3_Canonicalizer ==
  Canonicalized =>
    /\ pad \in 0..2
    /\ (Len(data) + pad) % 3 = 0
    /\ 3 * Len(pixels) = Len(data) + pad
    /\ \A i \in 1..(3 * Len(pixels)) :
         pixels[((i - 1) \div 3) + 1][((i - 1) % 3) + 1]
           = IF i <= Len(data) THEN data[i] ELSE 0
    /\ pixels_to_bytes(pixels, pad) = data

C3_Witness == pc = "done" /\ pad = 2 /\ Len(data) = 4 /\ data[4] = 0

\* C4: with compression requested, the bytes handed to bytes_to_pixels are
\* never longer than the input; zlib_used is true exactly when the
\* compressed form is strictly shorter, and then the compressed form is
\* what is canonicalized; otherwise the input is, with the flag false.
C4_CompressionNeverHarmful ==
  (Compressed /\ use_zlib) =>
    LET comp == zlib_compress(src_bytes)
    IN /\ Len(data) <= Len(src_bytes)
       /\ used_zlib <=> (Len(comp) < Len(src_bytes))
       /\ used_zlib => data = comp
       /\ ~used_zlib => data = src_bytes
       /\ meta.kind = "json" => meta.zlib_used = used_zlib

C4_Witness ==
  /\ pc = "done" /\ use_zlib /\ used_zlib /\ meta.zlib_used
  /\ Len(data) < Len(src_bytes)

\* C5: for N >= 1 pixels, pixels_to_image_file picks W = ceil(sqrt(N)) and
\* H = ceil(N/W), returns them, and W*H >= N with W*H - N < W.
C5_GridShape ==
  (img.kind = "png" /\ Len(pixels) >= 1) =>
    LET N == Len(pixels)
    IN /\ w * w >= N /\ (w - 1) * (w - 1) < N
       /\ h * w >= N /\ (h - 1) * w < N
       /\ img.width = w /\ img.height = h
       /\ w * h - N < w

C5_Witness == img.kind = "png" /\ Len(pixels) = 5 /\ w = 3 /\ h = 2

\* C6: encoding a zero-byte payload succeeds with pad 0 and no triplets and
\* produces a 1x1 image holding the filler triplet (0,0,0), recorded as
\* 1x1; decoding that image with its record yields the empty payload.
C6_EmptyPayload ==
  /\ (src_bytes = <<>> /\ EndedOnItsOwn) =>
       /\ pc = "done" /\ pad = 0 /\ pixels = <<>>
       /\ img = [kind |-> "png", width |-> 1, height |-> 1,
                 rows |-> << << <<0, 0, 0>> >> >>]
       /\ meta.kind = "json" /\ meta.image_width = 1 /\ meta.image_height = 1
  /\ (src_bytes = <<>> /\ FromImage /\ ~recon.same) =>
       (recon.status = "ok" /\ recon.out = <<>>)

\* C7: a pad_bytes read from the record that is not in {0,1,2}, or that
\* exceeds the length of the flattened bytes, makes unpadding fail with
\* InvalidPadding and nothing is written (stated for the PNG or WAV of the
\* encode decoded with a record whose pad_bytes was edited).
C7_InvalidPaddingRejected ==
  (/\ OwnArtifact
   /\ recon.meta.kind = "json"
   /\ \/ recon.meta.pad_bytes \notin 0..2
      \/ recon.meta.pad_bytes > 3 * recon.npix)
    => (recon.status = "InvalidPadding" /\ recon.out = <<>>)

\* C8: reconstruct_from_image given an image whose pixel count disagrees
\* with the dimensions its record states fails with DimensionMismatch and
\* writes nothing (stated for the record exactly as the encode wrote it).
C8_DimensionMismatchRejected ==
  (/\ pc = "done"
   /\ recon.src = "png"
   /\ recon.meta = meta
   /\ recon.npix # recon.meta.image_width * recon.meta.image_height)
    => (recon.status = "DimensionMismatch" /\ recon.out = <<>>)

\* C9: decoding the artifacts of an encode into the folder the encode wrote
\* to succeeds and leaves the reconstructed bytes at out_folder/orig_name,
\* whatever the input's name; the directory out_folder/<stem> is never in
\* the way.
C9_DecodeOutputName ==
  ((FromImage \/ FromWav) /\ recon.same) =>
    /\ recon.status = "ok"
    /\ folder[path_name] = [kind |-> "file", bytes |-> recon.out]

\* C10: the record is written only once the image, the text and the audio
\* of the encode are written, and an encode that fails before the record
\* stage leaves no record.
C10_MetadataLast ==
  /\ meta.kind # "none" =>
       (img.kind = "png" /\ hex.kind = "txt" /\ wav.kind = "wav")
  /\ (pc = "failed" /\ fail_stage # "meta") => meta.kind = "none"

C10_Witness == pc = "done" /\ meta.kind = "json" /\ wav.kind = "wav"

====
